---- MODULE Spec2Model ----
\* Pairwise narrow-phase collision callback of the FCL collision backend
\* (moveit_core/collision_detection/src/fcl/collision_common.cpp).
EXTENDS Integers, Sequences, FiniteSets, TLC

\* ------------------------------------------------------------------ bounds
\* largest CollisionRequest::max_contacts explored
MaxTotal == 2
\* largest CollisionRequest::max_contacts_per_pair explored
MaxPerPair == 2
\* largest number of contacts one fcl::collide call returns
MaxGen == 2

\* ------------------------------------------------------------------ bodies
\* std::string ids are sequences of character codes
ID_a  == <<1>>
ID_ab == <<1, 2>>
ID_b  == <<2>>

\* std::string operator< : lexicographic comparison, a proper prefix is smaller
RECURSIVE LexLess(_, _)
LexLess(s, t) ==
  IF t = <<>> THEN FALSE
  ELSE IF s = <<>> THEN TRUE
  ELSE IF Head(s) < Head(t) THEN TRUE
  ELSE IF Head(s) > Head(t) THEN FALSE
  ELSE LexLess(Tail(s), Tail(t))

\* CollisionGeometryData: the user data of a collision geometry
\* (type, and for an attached body its touch_links_)
LinkA   == [id |-> ID_a,  type |-> "ROBOT_LINK",     touch_links |-> {}]
LinkAB  == [id |-> ID_ab, type |-> "ROBOT_LINK",     touch_links |-> {}]
Attached == [id |-> ID_b, type |-> "ROBOT_ATTACHED", touch_links |-> {ID_a}]
Bodies == {LinkA, LinkAB, Attached}
Ids == {o.id : o \in Bodies}

\* ------------------------------------------------------------------ request and matrix
\* CollisionRequest: contacts, max_contacts, max_contacts_per_pair
Requests ==
  [contacts : BOOLEAN, max_contacts : 0..MaxTotal, max_contacts_per_pair : 0..MaxPerPair]

\* penetration depths a contact can carry
Depths == {0, 1}

\* An entry of the allowed collision matrix: its AllowedCollision::Type and,
\* for CONDITIONAL, the DecideContactFn, here "the contact is acceptable when
\* it is no deeper than max_depth" (-1: no contact is acceptable).
Entry(type, max_depth) == [type |-> type, max_depth |-> max_depth]
NoEntry == Entry("NONE", 0)

\* the unordered pair of ids an entry is stored under
UPair(a, b) == {a, b}
UPairs == {UPair(a, b) : a \in Ids, b \in Ids}

EmptyMatrix == [p \in UPairs |-> NoEntry]
MatrixOf(e_a_ab, e_a_b, e_ab_b) ==
  [p \in UPairs |->
     IF p = {ID_a, ID_ab} THEN e_a_ab
     ELSE IF p = {ID_a, ID_b} THEN e_a_b
     ELSE IF p = {ID_ab, ID_b} THEN e_ab_b
     ELSE NoEntry]

\* the matrices explored
Matrices ==
  { EmptyMatrix,
    MatrixOf(Entry("CONDITIONAL", 0), Entry("CONDITIONAL", 0), Entry("ALWAYS", 0)),
    MatrixOf(Entry("ALWAYS", 0), Entry("NEVER", 0), Entry("CONDITIONAL", 1)),
    MatrixOf(Entry("CONDITIONAL", 1), Entry("ALWAYS", 0), Entry("CONDITIONAL", -1)),
    MatrixOf(Entry("NEVER", 0), Entry("CONDITIONAL", 1), Entry("CONDITIONAL", 0)) }

\* ------------------------------------------------------------------ state
VARIABLES
  req,    \* cdata->req_  : the CollisionRequest (read-only)
  acm,    \* cdata->acm_  : the allowed collision matrix; present = FALSE is NULL
  res,    \* cdata->res_  : collision, contact_count, contacts (a map)
  done,   \* cdata->done_
  last,   \* the last call of collisionCallback: its arguments, what
          \* fcl::collide was asked and returned, and the value returned
  scene,  \* what fcl::collide returns for each candidate pair, when the
          \* geometry is fixed for the run (empty otherwise)
  todo    \* the candidate pairs the broad phase has not handed over yet,
          \* when it hands over each pair once

vars == <<req, acm, res, done, last, scene, todo>>

\* what fcl::collide can return: up to MaxGen contacts, each with a depth
DepthSeqs == UNION {[1..n -> Depths] : n \in 0..MaxGen}

\* std::numeric_limits<int>::max()
IntMax == 2147483647

\* ------------------------------------------------------------------ helpers
\* AllowedCollisionMatrix::getAllowedCollision(name1, name2, type): found, type
getAllowedCollision(m, name1, name2) == m[UPair(name1, name2)]

\* fcl2contact with the second body's name read from the first geometry
fcl2contact_SameBody(fc) ==
  [depth       |-> fc.penetration_depth,
   body_name_1 |-> fc.o1.id, body_type_1 |-> fc.o1.type,
   body_name_2 |-> fc.o1.id, body_type_2 |-> fc.o2.type]

\* fcl2contact: the names and types are copied from the contact's o1 and o2
fcl2contact(fc) ==
  [depth       |-> fc.penetration_depth,
   body_name_1 |-> fc.o1.id, body_type_1 |-> fc.o1.type,
   body_name_2 |-> fc.o2.id, body_type_2 |-> fc.o2.type]

\* a decider that also rejects a contact exactly as deep as the threshold
dcf_Strict(entry, c) == c.depth < entry.max_depth

\* the DecideContactFn of a CONDITIONAL entry applied to a Contact
dcf(entry, c) == c.depth <= entry.max_depth

\* a read key built in argument order, without the comparison
HaveKey_ArgumentOrder(cd1, cd2) == <<cd1.id, cd2.id>>

\* the key under which the stored count is read (lines 111-120)
HaveKey(cd1, cd2) ==
  IF LexLess(cd1.id, cd2.id) THEN <<cd1.id, cd2.id>> ELSE <<cd2.id, cd1.id>>

\* a storage key built in argument order, without the comparison
StoreKey_ArgumentOrder(cd1, cd2) == <<cd1.id, cd2.id>>

\* the key pc under which contacts are stored (lines 138-139 and 186-187)
StoreKey(cd1, cd2) ==
  IF LexLess(cd1.id, cd2.id) THEN <<cd1.id, cd2.id>> ELSE <<cd2.id, cd1.id>>

\* contacts.find(cp) != end ? contacts[cp].size() : 0
Have(contacts, cp) == IF cp \in DOMAIN contacts THEN Len(contacts[cp]) ELSE 0

\* a store that replaces the sequence under pc instead of appending to it
PushBack_Overwrite(contacts, pc, c) ==
  IF pc \in DOMAIN contacts
    THEN [contacts EXCEPT ![pc] = <<c>>]
    ELSE contacts @@ (pc :> <<c>>)

\* a store that puts the new contact in front of the sequence under pc
PushBack_Prepend(contacts, pc, c) ==
  IF pc \in DOMAIN contacts
    THEN [contacts EXCEPT ![pc] = <<c>> \o @]
    ELSE contacts @@ (pc :> <<c>>)

\* contacts[pc].push_back(c)
PushBack(contacts, pc, c) ==
  IF pc \in DOMAIN contacts
    THEN [contacts EXCEPT ![pc] = Append(@, c)]
    ELSE contacts @@ (pc :> <<c>>)

\* lines 54-76: the matrix entry read for the pair (NoEntry: none, or no matrix)
MatrixEntry(m, cd1, cd2) ==
  IF m.present THEN getAllowedCollision(m.table, cd1.id, cd2.id) ELSE NoEntry

\* the touch-link test without its second case (lines 89-99 left out)
TouchLink_FirstOrderOnly(cd1, cd2) ==
  IF cd1.type = "ROBOT_LINK" /\ cd2.type = "ROBOT_ATTACHED"
    THEN cd1.id \in cd2.touch_links
    ELSE FALSE

\* lines 78-99: a robot link touching an attached body that lists it
TouchLink(cd1, cd2) ==
  IF cd1.type = "ROBOT_LINK" /\ cd2.type = "ROBOT_ATTACHED"
    THEN cd1.id \in cd2.touch_links
    ELSE IF cd2.type = "ROBOT_LINK" /\ cd1.type = "ROBOT_ATTACHED"
      THEN cd2.id \in cd1.touch_links
      ELSE FALSE

\* always_allow_collision at line 102
AlwaysAllow(m, cd1, cd2) ==
  MatrixEntry(m, cd1, cd2).type = "ALWAYS" \/ TouchLink(cd1, cd2)

\* a budget that forgets the contacts the pair already has
WantContactCount_IgnoreHave(rq, rs, cd1, cd2) ==
  IF rq.contacts /\ rs.contact_count < rq.max_contacts
    THEN rq.max_contacts_per_pair
    ELSE 0

\* a budget that takes the total contact count for the pair's own count
WantContactCount_TotalAsHave(rq, rs, cd1, cd2) ==
  IF rq.contacts /\ rs.contact_count < rq.max_contacts
    THEN IF rs.contact_count < rq.max_contacts_per_pair
           THEN rq.max_contacts_per_pair - rs.contact_count
           ELSE 0
    ELSE 0

\* a budget that never looks at the total contact count
WantContactCount_NoGlobal(rq, rs, cd1, cd2) ==
  IF rq.contacts
    THEN LET have == Have(rs.contacts, HaveKey(cd1, cd2))
         IN  IF have < rq.max_contacts_per_pair
               THEN rq.max_contacts_per_pair - have
               ELSE 0
    ELSE 0

\* lines 105-123: want_contact_count
WantContactCount(rq, rs, cd1, cd2) ==
  IF rq.contacts /\ rs.contact_count < rq.max_contacts
    THEN LET have == Have(rs.contacts, HaveKey(cd1, cd2))
         IN  IF have < rq.max_contacts_per_pair
               THEN rq.max_contacts_per_pair - have
               ELSE 0
    ELSE 0

\* a loop that leaves at the first rejected contact, stored or not
RECURSIVE ConditionalLoop_StopAtFirst(_, _, _, _, _, _)
ConditionalLoop_StopAtFirst(rs, entry, pc, contacts, i, want) ==
  IF i > Len(contacts) THEN rs
  ELSE LET c == fcl2contact(contacts[i])
       IN  IF dcf(entry, c) = FALSE
             THEN [collision |-> TRUE,
                   contact_count |->
                     IF want > 0 THEN rs.contact_count + 1 ELSE rs.contact_count,
                   contacts |->
                     IF want > 0 THEN PushBack(rs.contacts, pc, c) ELSE rs.contacts]
             ELSE ConditionalLoop_StopAtFirst(rs, entry, pc, contacts, i + 1, want)

\* a loop that marks the collision only when it stores the contact
RECURSIVE ConditionalLoop_DetectOnlyStored(_, _, _, _, _, _)
ConditionalLoop_DetectOnlyStored(rs, entry, pc, contacts, i, want) ==
  IF i > Len(contacts) THEN rs
  ELSE LET c == fcl2contact(contacts[i])
       IN  IF dcf(entry, c) = FALSE
             THEN LET stored == want > 0
                      want2 == IF stored THEN want - 1 ELSE want
                      rs2 == [collision |-> rs.collision \/ stored,
                              contact_count |->
                                IF stored THEN rs.contact_count + 1 ELSE rs.contact_count,
                              contacts |->
                                IF stored THEN PushBack(rs.contacts, pc, c) ELSE rs.contacts]
                  IN  IF want2 = 0 THEN rs2
                      ELSE ConditionalLoop_DetectOnlyStored(rs2, entry, pc, contacts, i + 1, want2)
             ELSE ConditionalLoop_DetectOnlyStored(rs, entry, pc, contacts, i + 1, want)

\* lines 140-160: the loop over the contacts of a CONDITIONAL pair, from
\* index i, with want contacts still wanted; yields the result
RECURSIVE ConditionalLoop(_, _, _, _, _, _)
ConditionalLoop(rs, entry, pc, contacts, i, want) ==
  IF i > Len(contacts) THEN rs
  ELSE LET c == fcl2contact(contacts[i])
       IN  IF dcf(entry, c) = FALSE
             THEN LET stored == want > 0
                      want2 == IF stored THEN want - 1 ELSE want
                      rs2 == [collision |-> TRUE,
                              contact_count |->
                                IF stored THEN rs.contact_count + 1 ELSE rs.contact_count,
                              contacts |->
                                IF stored THEN PushBack(rs.contacts, pc, c) ELSE rs.contacts]
                  IN  IF want2 = 0 THEN rs2
                      ELSE ConditionalLoop(rs2, entry, pc, contacts, i + 1, want2)
             ELSE ConditionalLoop(rs, entry, pc, contacts, i + 1, want)

\* lines 140-160: the number of contacts the loop has looked at, from index
\* i with want contacts still wanted, when it ends or breaks (line 158)
RECURSIVE ConditionalScanned(_, _, _, _)
ConditionalScanned(entry, contacts, i, want) ==
  IF i > Len(contacts) THEN Len(contacts)
  ELSE IF dcf(entry, fcl2contact(contacts[i])) = FALSE
    THEN LET want2 == IF want > 0 THEN want - 1 ELSE want
         IN  IF want2 = 0 THEN i
             ELSE ConditionalScanned(entry, contacts, i + 1, want2)
    ELSE ConditionalScanned(entry, contacts, i + 1, want)

\* lines 189-195: store the first n contacts under pc
RECURSIVE StoreLoop(_, _, _, _, _)
StoreLoop(rs, pc, contacts, i, n) ==
  IF i > n THEN rs
  ELSE StoreLoop([rs EXCEPT !.contacts = PushBack(@, pc, fcl2contact(contacts[i])),
                            !.contact_count = @ + 1],
                 pc, contacts, i + 1, n)

\* the bounded branch without the clamp of lines 175-181
BoundedBranch_NoClamp(rs, pc, contacts, want) ==
  LET num_contacts == Len(contacts)
  IN  IF num_contacts > 0
        THEN StoreLoop([rs EXCEPT !.collision = TRUE], pc, contacts, 1, num_contacts)
        ELSE rs

\* lines 165-197: a pair without decider, want_contact_count > 0
BoundedBranch(rs, pc, contacts, want) ==
  LET num_contacts == Len(contacts)
  IN  IF num_contacts > 0
        THEN LET n == IF want >= num_contacts THEN num_contacts ELSE want
             IN  StoreLoop([rs EXCEPT !.collision = TRUE], pc, contacts, 1, n)
        ELSE rs

\* a boolean branch that drops the answer of the overlap query
BooleanBranch_NoDetect(rs, contacts) == rs

\* lines 198-211: a pair without decider, want_contact_count = 0
BooleanBranch(rs, contacts) ==
  IF Len(contacts) > 0 THEN [rs EXCEPT !.collision = TRUE] ELSE rs

\* a completion test that looks at the contact budget only
Complete_BudgetOnly(rq, rs) ==
  rs.collision /\ rs.contact_count >= rq.max_contacts

\* a completion test that waits for the budget to be exceeded
Complete_Strict(rq, rs) ==
  rs.collision /\ (~rq.contacts \/ rs.contact_count > rq.max_contacts)

\* lines 214-221: the run is complete
Complete(rq, rs) ==
  rs.collision /\ (~rq.contacts \/ rs.contact_count >= rq.max_contacts)

\* a callback that never short-circuits
ShortCircuit_Never(d) == FALSE

\* lines 46-47: if (cdata->done_) return true
ShortCircuit(d) == d

\* what fcl::collide(o1, o2, ...) returns in this call: one fcl::Contact per
\* depth, its o1/o2 the two geometries in the order the library labels them
FclContacts(o1, o2, depths, swap) ==
  [i \in 1..Len(depths) |->
     [o1 |-> IF swap THEN o2 ELSE o1,
      o2 |-> IF swap THEN o1 ELSE o2,
      penetration_depth |-> depths[i]]]

\* ------------------------------------------------------------------ the callback
\* bool collisionCallback(o1, o2, data), lines 43-224, as a function of the
\* CollisionData (request rq, matrix m, result rs, done flag d): the result and
\* done flag it leaves, and the record of the call
Callback(rq, m, rs, d, o1, o2, depths, swap) ==
  LET entry == MatrixEntry(m, o1, o2)
      want == WantContactCount(rq, rs, o1, o2)
      contacts == FclContacts(o1, o2, depths, swap)
      call == [o1 |-> o1, o2 |-> o2]
      nocollide == [want |-> 0, query |-> "none", cap |-> 0, depths |-> <<>>,
                    scanned |-> 0]
  IN
  IF ShortCircuit(d)
    THEN [res |-> rs, done |-> d, last |-> call @@ nocollide @@ [ret |-> TRUE]]
  ELSE IF AlwaysAllow(m, o1, o2)
    THEN [res |-> rs, done |-> d, last |-> call @@ nocollide @@ [ret |-> FALSE]]
  ELSE
    LET conditional == entry.type = "CONDITIONAL"
        rs2 == IF conditional
                 THEN ConditionalLoop(rs, entry, StoreKey(o1, o2), contacts, 1, want)
               ELSE IF want > 0
                 THEN BoundedBranch(rs, StoreKey(o1, o2), contacts, want)
               ELSE BooleanBranch(rs, contacts)
        done2 == IF Complete(rq, rs2) THEN TRUE ELSE d
    IN  [res |-> rs2, done |-> done2,
         last |-> call @@
           [want |-> want, depths |-> depths,
            query |-> IF conditional THEN "exhaustive"
                      ELSE IF want > 0 THEN "bounded" ELSE "boolean",
            cap |-> IF conditional THEN IntMax ELSE IF want > 0 THEN want ELSE 1,
            scanned |-> IF conditional THEN ConditionalScanned(entry, contacts, 1, want)
                        ELSE 0,
            ret |-> done2]]

\* one call of the callback on the shared CollisionData
collisionCallback(o1, o2, depths, swap) ==
  LET r == Callback(req, acm, res, done, o1, o2, depths, swap)
  IN  /\ UNCHANGED <<req, acm>>
      /\ res' = r.res
      /\ done' = r.done
      /\ last' = r.last

NoCall == [o1 |-> LinkA, o2 |-> LinkA, depths |-> <<>>, want |-> 0,
           query |-> "init", cap |-> 0, scanned |-> 0, ret |-> FALSE]

Init ==
  /\ req \in Requests
  /\ acm \in [present : {TRUE}, table : Matrices]
             \cup {[present |-> FALSE, table |-> EmptyMatrix]}
  /\ res = [collision |-> FALSE, contact_count |-> 0, contacts |-> <<>>]
  /\ done = FALSE
  /\ last = NoCall
  /\ scene = <<>>
  /\ todo = {}

\* the call reaches an fcl::collide call: it passes lines 46-47 and 101-103
ReachesCollide(o1, o2) == ~ShortCircuit(done) /\ ~AlwaysAllow(acm, o1, o2)

\* a call on any two bodies with distinct ids; fcl::collide, when the call
\* reaches it, returns any contacts
Next ==
  \E o1 \in Bodies, o2 \in Bodies :
    /\ o1 # o2
    /\ IF ReachesCollide(o1, o2)
         THEN \E depths \in DepthSeqs, swap \in BOOLEAN :
                collisionCallback(o1, o2, depths, swap)
         ELSE collisionCallback(o1, o2, <<>>, FALSE)
    /\ UNCHANGED <<scene, todo>>

Spec == Init /\ [][Next]_vars

\* ------------------------------------------------------------------ same-id pairs
\* The broad phase also hands over two geometries that carry the same
\* CollisionGeometryData, hence the same id.
NextSelf ==
  \E o1 \in Bodies, o2 \in Bodies :
    /\ IF ReachesCollide(o1, o2)
         THEN \E depths \in DepthSeqs, swap \in BOOLEAN :
                collisionCallback(o1, o2, depths, swap)
         ELSE collisionCallback(o1, o2, <<>>, FALSE)
    /\ UNCHANGED <<scene, todo>>

SpecSelf == Init /\ [][NextSelf]_vars

\* ------------------------------------------------------------------ scenario B
\* Three bodies no two of which are a link and an attached body, no matrix,
\* max_contacts = 5, max_contacts_per_pair = 10, every pair offering 3 contacts.
WorldB == [id |-> ID_b, type |-> "WORLD_OBJECT", touch_links |-> {}]
BodiesB == {LinkA, LinkAB, WorldB}

InitB ==
  /\ req = [contacts |-> TRUE, max_contacts |-> 5, max_contacts_per_pair |-> 10]
  /\ acm = [present |-> FALSE, table |-> EmptyMatrix]
  /\ res = [collision |-> FALSE, contact_count |-> 0, contacts |-> <<>>]
  /\ done = FALSE
  /\ last = NoCall
  /\ scene = <<>>
  /\ todo = {}

NextB ==
  \E o1 \in BodiesB, o2 \in BodiesB, depths \in [1..3 -> Depths], swap \in BOOLEAN :
    /\ o1 # o2
    /\ collisionCallback(o1, o2, depths, swap)
    /\ UNCHANGED <<scene, todo>>

SpecB == InitB /\ [][NextB]_vars

\* ------------------------------------------------------------------ one pass, fixed geometry
\* The broad phase hands over each candidate pair once, in any order; what
\* fcl::collide returns for a pair is fixed for the run.
Candidates == {<<LinkA, LinkAB>>, <<Attached, LinkAB>>, <<LinkA, Attached>>}

\* the link and the attached body that lists it overlap; the other two pairs
\* return any contacts
Scenes ==
  {s \in [Candidates -> DepthSeqs] : s[<<LinkA, Attached>>] = <<1>>}

\* requests whose max_contacts can exceed what all pairs together store
RequestsOrder ==
  [contacts : BOOLEAN, max_contacts : 0..(MaxTotal + MaxPerPair),
   max_contacts_per_pair : 0..MaxPerPair]

InitOrder ==
  /\ req \in RequestsOrder
  /\ acm \in [present : {TRUE}, table : Matrices]
             \cup {[present |-> FALSE, table |-> EmptyMatrix]}
  /\ res = [collision |-> FALSE, contact_count |-> 0, contacts |-> <<>>]
  /\ done = FALSE
  /\ last = NoCall
  /\ scene \in Scenes
  /\ todo = Candidates

NextOrder ==
  \E p \in todo :
    /\ collisionCallback(p[1], p[2], scene[p], FALSE)
    /\ todo' = todo \ {p}
    /\ UNCHANGED scene

SpecOrder == InitOrder /\ [][NextOrder]_vars

\* the callback applied to the pairs of a sequence, in its order
RECURSIVE Run(_, _, _, _, _, _)
Run(rq, m, rs, d, sc, pairs) ==
  IF pairs = <<>> THEN [res |-> rs, done |-> d]
  ELSE LET p == Head(pairs)
           r == Callback(rq, m, rs, d, p[1], p[2], sc[p], FALSE)
       IN  Run(rq, m, r.res, r.done, sc, Tail(pairs))

\* ------------------------------------------------------------------ properties
\* the disposition of a pair as the policy states it
TableType(o1, o2) ==
  IF acm.present THEN acm.table[{o1.id, o2.id}].type ELSE "NONE"

LinkTouches(l, a) ==
  l.type = "ROBOT_LINK" /\ a.type = "ROBOT_ATTACHED" /\ l.id \in a.touch_links

TouchOverride(o1, o2) == LinkTouches(o1, o2) \/ LinkTouches(o2, o1)

DispositionAlways(o1, o2) == TableType(o1, o2) = "ALWAYS" \/ TouchOverride(o1, o2)

DispositionConditional(o1, o2) ==
  TableType(o1, o2) = "CONDITIONAL" /\ ~TouchOverride(o1, o2)

RECURSIVE SumLen(_, _)
SumLen(contacts, keys) ==
  IF keys = {} THEN 0
  ELSE LET k == CHOOSE x \in keys : TRUE
       IN  Len(contacts[k]) + SumLen(contacts, keys \ {k})

\* the number of contacts stored in the map
Stored(contacts) == SumLen(contacts, DOMAIN contacts)

\* C1: a call made while done is false on a pair whose disposition is Always
\* (by the matrix or by a touch link, in either argument order) does not call
\* fcl::collide, leaves the result and done unchanged and returns false.
C1_AlwaysIsNoOp ==
  [][(~done /\ DispositionAlways(last'.o1, last'.o2))
       => /\ last'.query = "none"
          /\ last'.ret = FALSE
          /\ res' = res
          /\ done' = done]_vars

\* a touch-link pair with a CONDITIONAL matrix entry, evaluated attached body
\* first after contacts of another pair were stored, was skipped
C1_Witness ==
  /\ ~done
  /\ last.o1 = Attached /\ last.o2 = LinkA
  /\ TableType(Attached, LinkA) = "CONDITIONAL"
  /\ last.query = "none" /\ last.ret = FALSE
  /\ res.collision /\ res.contact_count > 0

\* C2: contact_count equals the number of contacts stored over all keys.
C2_CountIsSum == res.contact_count = Stored(res.contacts)

\* contacts stored under two keys by calls of both kinds that store
C2_Witness ==
  /\ Cardinality(DOMAIN res.contacts) = 2
  /\ res.contact_count = 3
  /\ last.query = "exhaustive" /\ last.want = 2

\* C3: no key ever holds more than max_contacts_per_pair contacts.
C3_PerPairCap ==
  \A k \in DOMAIN res.contacts : Len(res.contacts[k]) <= req.max_contacts_per_pair

\* a pair re-evaluated with one contact left to store, for which fcl::collide
\* returned more contacts than the cap it was given, is at its cap
C3_Witness ==
  /\ last.query = "bounded" /\ last.want = 1 /\ last.cap = 1
  /\ Len(last.depths) > last.cap
  /\ req.max_contacts_per_pair = 2
  /\ Len(res.contacts[StoreKey(last.o1, last.o2)]) = 2

\* C4 (as claimed): once done, contact_count is within max_contacts.
C4_DoneWithinBudget == done => res.contact_count <= req.max_contacts

\* C5: once done is true a call returns true, does not call fcl::collide and
\* changes neither the result nor done.
C5_DoneIsNoOp ==
  [][done => /\ last'.ret = TRUE
             /\ last'.query = "none"
             /\ res' = res
             /\ done']_vars

\* a call made after the run completed
C5_Witness ==
  /\ done
  /\ last.query = "none" /\ last.ret = TRUE
  /\ res.contact_count > 0

\* C6 (as claimed): in scenario B the run ends with exactly 5 contacts stored.
C6_ScenarioBStoresFive == done => res.contact_count = 5

\* min(a, b), max(a, b) of two ids
CanonicalPair(a, b) == IF LexLess(a, b) THEN <<a, b>> ELSE <<b, a>>

\* C7: for two bodies with distinct ids both argument orders read the stored
\* count from, and store under, the key (min, max); so every key of the map has
\* its first id smaller than its second and no pair occupies two keys.
C7_CanonicalKey ==
  /\ \A o1 \in Bodies, o2 \in Bodies :
       o1.id # o2.id =>
         /\ HaveKey(o1, o2) = CanonicalPair(o1.id, o2.id)
         /\ StoreKey(o1, o2) = HaveKey(o1, o2)
         /\ StoreKey(o2, o1) = StoreKey(o1, o2)
         /\ HaveKey(o2, o1) = HaveKey(o1, o2)
  /\ \A k \in DOMAIN res.contacts : LexLess(k[1], k[2])
  /\ \A k1 \in DOMAIN res.contacts, k2 \in DOMAIN res.contacts :
       {k1[1], k1[2]} = {k2[1], k2[2]} => k1 = k2
  /\ (last.query \in {"bounded", "exhaustive"} /\ last.want > 0 /\ res.contact_count > 0)
       => \A k \in DOMAIN res.contacts :
            {k[1], k[2]} = {last.o1.id, last.o2.id}
              => k = CanonicalPair(last.o1.id, last.o2.id)

\* a pair evaluated in both argument orders, the second time with the larger
\* id first, has both its contacts under the one key
C7_Witness ==
  /\ last.o1 = Attached /\ last.o2 = LinkAB
  /\ last.query = "bounded" /\ last.want = 1
  /\ DOMAIN res.contacts = {<<ID_ab, ID_b>>}
  /\ Len(res.contacts[<<ID_ab, ID_b>>]) = 2
  /\ res.contacts[<<ID_ab, ID_b>>][1].body_name_1 = ID_ab
  /\ res.contacts[<<ID_ab, ID_b>>][2].body_name_1 = ID_b

\* C8 (as claimed): every stored Contact has body_name_1 < body_name_2.
C8_ContactNamesOrdered ==
  \A k \in DOMAIN res.contacts : \A i \in 1..Len(res.contacts[k]) :
    LexLess(res.contacts[k][i].body_name_1, res.contacts[k][i].body_name_2)

\* C8 (amended): every Contact stored under a key names exactly the two
\* bodies of that key, in the order fcl::collide labeled them.
C8_ContactNamesAreTheKey ==
  \A k \in DOMAIN res.contacts : \A i \in 1..Len(res.contacts[k]) :
    LET c == res.contacts[k][i]
    IN  /\ {c.body_name_1, c.body_name_2} = {k[1], k[2]}
        /\ c.body_name_1 # c.body_name_2
        /\ \E o1 \in Bodies, o2 \in Bodies :
             /\ c.body_name_1 = o1.id /\ c.body_type_1 = o1.type
             /\ c.body_name_2 = o2.id /\ c.body_type_2 = o2.type

\* one key holds a contact labeled smaller id first and one labeled larger
\* id first
C8_Witness ==
  \E k \in DOMAIN res.contacts :
    /\ Len(res.contacts[k]) = 2
    /\ LexLess(res.contacts[k][1].body_name_1, res.contacts[k][1].body_name_2)
    /\ LexLess(res.contacts[k][2].body_name_2, res.contacts[k][2].body_name_1)

\* the pair has no matrix entry and no touch link
NoPolicy(o1, o2) == TableType(o1, o2) = "NONE" /\ ~TouchOverride(o1, o2)

\* C9: when the request wants no contacts the map stays empty and
\* contact_count stays 0, and a call on an overlapping pair without policy
\* entry or touch link sets collision and done in that call.
C9_NoContactsWanted ==
  [][~req.contacts =>
       /\ res'.contacts = <<>> /\ res'.contact_count = 0
       /\ (~done /\ NoPolicy(last'.o1, last'.o2) /\ Len(last'.depths) > 0)
            => (res'.collision /\ done' /\ last'.ret = TRUE)]_vars

\* an overlapping pair without policy entry, under a matrix that is present,
\* ended the run in the call that evaluated it
C9_Witness ==
  /\ ~req.contacts
  /\ acm.present /\ NoPolicy(last.o1, last.o2)
  /\ last.query = "boolean" /\ last.cap = 1 /\ Len(last.depths) = MaxGen
  /\ res.collision /\ done /\ last.ret = TRUE

\* the decider of the pair's entry accepts a contact of depth d
Accepts(o1, o2, d) == d <= acm.table[{o1.id, o2.id}].max_depth

\* C10: a call on a Conditional pair whose predicate accepts every contact
\* fcl::collide returns stores nothing and leaves collision and contact_count
\* unchanged.
C10_AllAccepted ==
  [][(/\ ~done
      /\ DispositionConditional(last'.o1, last'.o2)
      /\ \A i \in 1..Len(last'.depths) : Accepts(last'.o1, last'.o2, last'.depths[i]))
       => /\ last'.query = "exhaustive"
          /\ res'.contacts = res.contacts
          /\ res'.collision = res.collision
          /\ res'.contact_count = res.contact_count]_vars

\* a Conditional pair with budget left, all of whose contacts, of both
\* depths, were accepted
C10_Witness ==
  /\ DispositionConditional(last.o1, last.o2)
  /\ last.query = "exhaustive" /\ last.want = MaxPerPair
  /\ Len(last.depths) = MaxGen
  /\ {last.depths[i] : i \in 1..Len(last.depths)} = Depths
  /\ \A i \in 1..Len(last.depths) : Accepts(last.o1, last.o2, last.depths[i])
  /\ ~res.collision /\ res.contact_count = 0 /\ ~done

\* s is a prefix of t
IsPrefix(s, t) == Len(s) <= Len(t) /\ SubSeq(t, 1, Len(s)) = s

\* C11: collision never goes from true to false, contact_count never
\* decreases, and the sequence under each key only grows by appending.
C11_Monotonic ==
  [][/\ res.collision => res'.collision
     /\ res'.contact_count >= res.contact_count
     /\ \A k \in DOMAIN res.contacts :
          /\ k \in DOMAIN res'.contacts
          /\ IsPrefix(res.contacts[k], res'.contacts[k])]_vars

\* a key that held a contact of depth 0 got a contact of depth 1 appended by
\* a later call
C11_Witness ==
  /\ last.want = 1 /\ last.query = "bounded" /\ last.depths = <<1>>
  /\ \E k \in DOMAIN res.contacts :
       /\ Len(res.contacts[k]) = 2
       /\ res.contacts[k][1].depth = 0
       /\ res.contacts[k][2].depth = 1

\* C12 (as claimed): a call whose two bodies carry the same id is rejected: it
\* does not call fcl::collide, and no key (id, id) is ever stored.
C12_SelfPairRejected ==
  /\ \A k \in DOMAIN res.contacts : k[1] # k[2]
  /\ (last.query # "init" /\ last.o1.id = last.o2.id) => last.query = "none"

\* the pass is over: every pair was handed over, or done stopped it
Finished == todo = {} \/ done

\* the result of handing the pairs over in one fixed order
ReferenceOrder == <<<<LinkA, LinkAB>>, <<Attached, LinkAB>>, <<LinkA, Attached>>>>
Reference ==
  Run(req, acm, [collision |-> FALSE, contact_count |-> 0, contacts |-> <<>>],
      FALSE, scene, ReferenceOrder)

\* C13 (as claimed): the final result is the same for every order of the pairs.
C13_SameResultInEveryOrder == Finished => res = Reference.res

\* C13 (amended): collision is the same for every order, and so are
\* contact_count and the map when contacts are not wanted or the pass ends
\* without done being set.
C13_SameResultUnlessBudgetStops ==
  Finished =>
    /\ res.collision = Reference.res.collision
    /\ (~req.contacts \/ ~done) => res = Reference.res

\* a pass that ended without done, the pair handed over last in the
\* reference order first, both pairs with contacts stored
C13_Witness ==
  /\ todo = {} /\ ~done /\ req.contacts
  /\ last.o1 = LinkA /\ last.o2 = LinkAB
  /\ DOMAIN res.contacts = {<<ID_a, ID_ab>>, <<ID_ab, ID_b>>}
  /\ Len(res.contacts[<<ID_a, ID_ab>>]) = 2
  /\ res.contact_count = 3

\* the pair is checked as a normal pair: not Always, not Conditional
DispositionNotSpecified(o1, o2) ==
  ~DispositionAlways(o1, o2) /\ ~DispositionConditional(o1, o2)

\* some candidate pair is a real collision: a normal pair with a contact, or
\* a Conditional pair with a contact its predicate rejects
SomePairCollides ==
  \E p \in Candidates :
    \/ DispositionNotSpecified(p[1], p[2]) /\ Len(scene[p]) > 0
    \/ /\ DispositionConditional(p[1], p[2])
       /\ \E i \in 1..Len(scene[p]) : ~Accepts(p[1], p[2], scene[p][i])

\* C20: the final collision is true exactly when some pair that is not Always
\* is a normal pair with a contact or a Conditional pair with a rejected
\* contact, whatever the order and also when done ended the pass early.
C20_CollisionIsOrderIndependent == Finished => res.collision = SomePairCollides

\* done ended the pass with two pairs not handed over, one of them a
\* Conditional pair with a rejected contact
C20_Witness ==
  /\ done /\ Cardinality(todo) = 2 /\ res.collision
  /\ \E p \in todo :
       /\ DispositionConditional(p[1], p[2])
       /\ \E i \in 1..Len(scene[p]) : ~Accepts(p[1], p[2], scene[p][i])

\* the number of contacts stored for the pair of ids a, b
StoredFor(contacts, a, b) ==
  IF CanonicalPair(a, b) \in DOMAIN contacts
    THEN Len(contacts[CanonicalPair(a, b)]) ELSE 0

\* remaining_for_pair: 0 when contacts are not wanted or the total budget is
\* reached, else max_contacts_per_pair minus the pair's stored count, floored
RemainingForPair(rs, a, b) ==
  IF ~req.contacts \/ rs.contact_count >= req.max_contacts THEN 0
  ELSE IF req.max_contacts_per_pair - StoredFor(rs.contacts, a, b) > 0
    THEN req.max_contacts_per_pair - StoredFor(rs.contacts, a, b)
    ELSE 0

\* the step is a call that got past the done and Always tests
Evaluated == last'.query \in {"exhaustive", "bounded", "boolean"} /\ ~done

\* C14: the budget of a call that is not Always is remaining_for_pair of the
\* result the call found, and is the same for both argument orders.
C14_Want ==
  [][/\ Evaluated => last'.want = RemainingForPair(res, last'.o1.id, last'.o2.id)
     /\ \A o1 \in Bodies, o2 \in Bodies :
          WantContactCount(req, res', o1, o2) = WantContactCount(req, res', o2, o1)]_vars

\* a pair that held one contact, handed over larger id first, got a budget of
\* one
C14_Witness ==
  /\ last.o1 = LinkAB /\ last.o2 = LinkA
  /\ last.query = "exhaustive" /\ last.want = 1
  /\ req.max_contacts_per_pair = 2
  /\ ~done

\* the depths of a sequence that the pair's predicate rejects, in order
RECURSIVE RejectedOf(_, _, _)
RejectedOf(o1, o2, depths) ==
  IF depths = <<>> THEN <<>>
  ELSE IF Accepts(o1, o2, Head(depths))
    THEN RejectedOf(o1, o2, Tail(depths))
    ELSE <<Head(depths)>> \o RejectedOf(o1, o2, Tail(depths))

\* the index of the n-th rejected depth from index i on, or the length of the
\* sequence when there are fewer
RECURSIVE IndexOfRejected(_, _, _, _, _)
IndexOfRejected(o1, o2, depths, i, n) ==
  IF i > Len(depths) THEN Len(depths)
  ELSE IF Accepts(o1, o2, depths[i])
    THEN IndexOfRejected(o1, o2, depths, i + 1, n)
    ELSE IF n <= 1 THEN i ELSE IndexOfRejected(o1, o2, depths, i + 1, n - 1)

Least(x, y) == IF x < y THEN x ELSE y

\* the depths of the contacts of a sequence
DepthsOf(cs) == [i \in 1..Len(cs) |-> cs[i].depth]

\* the contacts the step appended under key k
AppendedTo(k) ==
  IF k \in DOMAIN res'.contacts
    THEN SubSeq(res'.contacts[k], StoredFor(res.contacts, k[1], k[2]) + 1,
                Len(res'.contacts[k]))
    ELSE <<>>

\* the step changed no key other than k, and only appended under k
OnlyAppendedTo(k) ==
  /\ DOMAIN res'.contacts \subseteq DOMAIN res.contacts \cup {k}
  /\ \A j \in DOMAIN res.contacts :
       /\ j \in DOMAIN res'.contacts
       /\ IF j = k THEN IsPrefix(res.contacts[j], res'.contacts[j])
                   ELSE res'.contacts[j] = res.contacts[j]

\* C15: a call on a Conditional pair with budget want queries exhaustively,
\* stores exactly the first min(want, r) rejected contacts in generator order
\* (r: the rejected contacts returned), sets collision exactly when r >= 1,
\* and stops scanning at the first rejected contact after which want is 0.
C15_ConditionalStores ==
  [][(Evaluated /\ DispositionConditional(last'.o1, last'.o2)) =>
       LET o1 == last'.o1
           o2 == last'.o2
           want == RemainingForPair(res, o1.id, o2.id)
           rej == RejectedOf(o1, o2, last'.depths)
           k == CanonicalPair(o1.id, o2.id)
       IN  /\ last'.query = "exhaustive" /\ last'.cap = IntMax
           /\ OnlyAppendedTo(k)
           /\ DepthsOf(AppendedTo(k)) = SubSeq(rej, 1, Least(want, Len(rej)))
           /\ res'.contact_count = res.contact_count + Least(want, Len(rej))
           /\ res'.collision = (res.collision \/ Len(rej) >= 1)
           /\ last'.scanned = IndexOfRejected(o1, o2, last'.depths, 1, want)]_vars

\* an accepted contact, then a rejected one that took the last place of the
\* pair, where the scan ended
C15_Witness ==
  /\ DispositionConditional(last.o1, last.o2)
  /\ last.query = "exhaustive" /\ last.want = 1
  /\ Len(last.depths) = MaxGen
  /\ Accepts(last.o1, last.o2, last.depths[1])
  /\ ~Accepts(last.o1, last.o2, last.depths[2])
  /\ last.scanned = 2
  /\ Len(res.contacts[CanonicalPair(last.o1.id, last.o2.id)]) = req.max_contacts_per_pair

\* C16: a call on a normal pair with budget want > 0 queries in bounded mode
\* with cap want, appends exactly the first min(want, n) of the n contacts
\* returned under the canonical key, adds as many to contact_count, and sets
\* collision exactly when n > 0.
C16_BoundedStores ==
  [][(/\ Evaluated
      /\ DispositionNotSpecified(last'.o1, last'.o2)
      /\ RemainingForPair(res, last'.o1.id, last'.o2.id) > 0) =>
       LET want == RemainingForPair(res, last'.o1.id, last'.o2.id)
           n == Len(last'.depths)
           k == CanonicalPair(last'.o1.id, last'.o2.id)
       IN  /\ last'.query = "bounded" /\ last'.cap = want
           /\ OnlyAppendedTo(k)
           /\ DepthsOf(AppendedTo(k)) = SubSeq(last'.depths, 1, Least(want, n))
           /\ res'.contact_count = res.contact_count + Least(want, n)
           /\ res'.collision = (res.collision \/ n > 0)]_vars

\* a pair with a NEVER entry and one place left, for which fcl::collide
\* returned two contacts of different depths: the first was appended
C16_Witness ==
  /\ TableType(last.o1, last.o2) = "NEVER"
  /\ last.query = "bounded" /\ last.want = 1
  /\ last.depths = <<1, 0>>
  /\ DepthsOf(res.contacts[CanonicalPair(last.o1.id, last.o2.id)]) = <<0, 1>>

\* C17: a call whose budget is 0 leaves the map and contact_count unchanged
\* whatever the disposition; on a normal pair it asks only for an overlap
\* (cap 1) and sets collision exactly when the query reports one.
C17_NoBudget ==
  [][RemainingForPair(res, last'.o1.id, last'.o2.id) = 0 =>
       /\ res'.contacts = res.contacts
       /\ res'.contact_count = res.contact_count
       /\ (Evaluated /\ DispositionNotSpecified(last'.o1, last'.o2)) =>
            /\ last'.query = "boolean" /\ last'.cap = 1
            /\ res'.collision = (res.collision \/ Len(last'.depths) > 0)]_vars

\* a pair whose own places are used up while the total budget is not, found
\* overlapping again by the boolean query
C17_Witness ==
  /\ req.contacts /\ res.contact_count < req.max_contacts
  /\ last.query = "boolean" /\ last.cap = 1 /\ Len(last.depths) > 0
  /\ CanonicalPair(last.o1.id, last.o2.id) \in DOMAIN res.contacts
  /\ Len(res.contacts[CanonicalPair(last.o1.id, last.o2.id)]) = req.max_contacts_per_pair
  /\ res.collision /\ ~done

\* the stop condition of the termination check
StopCondition ==
  res.collision /\ (~req.contacts \/ res.contact_count >= req.max_contacts)

\* C18: between calls done is true exactly when collision is true and
\* contacts are not wanted or contact_count has reached max_contacts.
C18_DoneIffStop == done <=> StopCondition

\* a pair with an ALWAYS entry was skipped while a collision was known and
\* the budget not yet reached
C18_Witness ==
  /\ ~done /\ res.collision /\ req.contacts
  /\ res.contact_count = 1 /\ req.max_contacts = 2
  /\ TableType(last.o1, last.o2) = "ALWAYS"
  /\ last.query = "none" /\ last.ret = FALSE

\* C19: contact_count is 0 when contacts are not wanted or either maximum is
\* 0, and otherwise at most max_contacts - 1 + max_contacts_per_pair.
C19_Overshoot ==
  IF ~req.contacts \/ req.max_contacts = 0 \/ req.max_contacts_per_pair = 0
    THEN res.contact_count = 0
    ELSE res.contact_count <= req.max_contacts - 1 + req.max_contacts_per_pair

\* the largest overshoot: one contact short of the total budget, then a pair
\* that stored max_contacts_per_pair contacts
C19_Witness ==
  /\ req.max_contacts = MaxTotal /\ req.max_contacts_per_pair = MaxPerPair
  /\ res.contact_count = req.max_contacts - 1 + req.max_contacts_per_pair
  /\ last.want = MaxPerPair
  /\ done

====
